---- MODULE Spec2Model ----
(***************************************************************************)
(* Hotel room reservation (HotelReservations.cpp).                         *)
(*                                                                         *)
(* A Hotel owns, per room, two occupancy stores and a utilization cache:   *)
(*   occupied_bf  vector<vector<bool>>   used by Book and Book_V2          *)
(*   occupied_bs  vector<bitset<366>>    used by Book_V3                   *)
(*   utilization  vector<int>            used by Book_V3                   *)
(* A boolean row / bitset is represented by the set of days whose bit is   *)
(* set, so occupied[r][d] is  d \in occupied[r].                           *)
(***************************************************************************)
EXTENDS Integers, Sequences, FiniteSets, Bags, TLC

\* Hotel::MaxDays
MaxDays == 366

\* Bounds of the model: the largest room count a Hotel is constructed with,
\* the largest "small" day used in requests, and the number of accepted
\* bookings after which a Hotel receives no further calls.
MaxRooms == 2
MaxDay == 1
MaxAccepted == 3

\* Days a request may name as start and as end: one value below the horizon,
\* the small days, the last day of the horizon and the first day past it.
StartDays == ((-1) .. MaxDay) \cup {MaxDays - 1}
EndDays == (0 .. MaxDay) \cup {MaxDays - 1, MaxDays}

VARIABLES
  hotels,   \* hotels[i]: the Hotel object i (size and the three members)
  driver,   \* driver[i]: the method through which the caller books on hotel i
  last,     \* last[i]: the most recent call on hotel i and what it returned
  log,      \* log[i]: bag of the accepted bookings of hotel i
  run,      \* the RunTest invocation in progress: test, position, results
  threads   \* threads[t]: the locals of a Book_V3 call executed step by step

vars == <<hotels, driver, last, log, run, threads>>

----------------------------------------------------------------------------
\* Hotel::Hotel(int s)
Hotel(s) ==
  [ size        |-> s,
    occupied_bf |-> [r \in 0 .. s - 1 |-> {}],
    occupied_bs |-> [r \in 0 .. s - 1 |-> {}],
    utilization |-> [r \in 0 .. s - 1 |-> 0] ]

\* Hotel::countUtilization_bf: scan of all MaxDays days of the room
countUtilization_bf(h, room) ==
  Cardinality(h.occupied_bf[room] \cap (0 .. MaxDays - 1))

\* Hotel::countUtilization_bs
countUtilization_bs(h, room) == h.utilization[room]

\* Mutant of Invalid: the horizon test written end > MaxDays
InvalidOffByOne(start, end) == start < 0 \/ end > MaxDays \/ start > end

\* Mutant of Invalid: the range test written start >= end
InvalidSingleDay(start, end) == start < 0 \/ end >= MaxDays \/ start >= end

\* Mutant of Invalid: the horizon test written end >= MaxDays - 1
InvalidLastDay(start, end) == start < 0 \/ end >= MaxDays - 1 \/ start > end

\* The validation at the head of Book, Book_V2 and Book_V3
Invalid(start, end) == start < 0 \/ end >= MaxDays \/ start > end

\* Mutant of isFree: the day loop written d < end
isFreeExclusiveEnd(occ, r, start, end) ==
  \A d \in start .. end - 1 : d \notin occ[r]

\* Mutant of isFree: only the first day of the range is tested
isFreeStartOnly(occ, r, start, end) == start \notin occ[r]

\* The inner loop of the free-room search: no day of [start,end] is set
isFree(occ, r, start, end) == \A d \in start .. end : d \notin occ[r]

\* The outer loop of the free-room search: rooms r = from .. size-1 in
\* increasing order, each free one pushed to the back of freeRooms.
RECURSIVE FreeRoomsFrom(_, _, _, _, _)
FreeRoomsFrom(occ, size, r, start, end) ==
  IF r >= size THEN <<>>
  ELSE (IF isFree(occ, r, start, end) THEN <<r>> ELSE <<>>)
       \o FreeRoomsFrom(occ, size, r + 1, start, end)

freeRooms_bf(h, start, end) == FreeRoomsFrom(h.occupied_bf, h.size, 0, start, end)
\* Mutant of freeRooms_bs: the search reads occupied_bf
freeRooms_bsWrongStore(h, start, end) ==
  FreeRoomsFrom(h.occupied_bf, h.size, 0, start, end)

\* Mutant of freeRooms_bs: the room loop started at r = 1
freeRooms_bsFromOne(h, start, end) ==
  FreeRoomsFrom(h.occupied_bs, h.size, 1, start, end)

freeRooms_bs(h, start, end) == FreeRoomsFrom(h.occupied_bs, h.size, 0, start, end)

\* Mutant of ScanUpdates: the comparison turned round (least utilized wins)
ScanUpdatesMin(count, r, maxOccupiedCount, chosenRoom) ==
  \/ chosenRoom = -1
  \/ count < maxOccupiedCount

\* Mutant of ScanUpdates: count >= maxOccupiedCount (the last of a tie wins)
ScanUpdatesGE(count, r, maxOccupiedCount, chosenRoom) ==
  count >= maxOccupiedCount

\* The selection loop of Book: linear scan of freeRooms[k..] carrying
\* (maxOccupiedCount, chosenRoom), started at (-1, -1).
ScanUpdates(count, r, maxOccupiedCount, chosenRoom) ==
  \/ count > maxOccupiedCount
  \/ (count = maxOccupiedCount /\ (chosenRoom = -1 \/ r < chosenRoom))

RECURSIVE MaxScan(_, _, _, _, _)
MaxScan(h, freeRooms, k, maxOccupiedCount, chosenRoom) ==
  IF k > Len(freeRooms) THEN chosenRoom
  ELSE LET r == freeRooms[k]
           count == countUtilization_bf(h, r)
       IN  IF ScanUpdates(count, r, maxOccupiedCount, chosenRoom)
           THEN MaxScan(h, freeRooms, k + 1, count, r)
           ELSE MaxScan(h, freeRooms, k + 1, maxOccupiedCount, chosenRoom)

\* Mutant of PairLess: the second component compared first
PairLessSecondFirst(a, b) == a[2] < b[2] \/ (a[2] = b[2] /\ a[1] < b[1])

\* std::pair<int,int> operator<
PairLess(a, b) == a[1] < b[1] \/ (a[1] = b[1] /\ a[2] < b[2])

\* Mutant of PqTop: a min-heap (std::greater as the comparator)
PqTopMin(pq) ==
  CHOOSE p \in {pq[k] : k \in 1 .. Len(pq)} :
    \A k \in 1 .. Len(pq) : ~PairLess(pq[k], p)

\* std::priority_queue<RoomInfo>::top over the pushed elements: the greatest
PqTop(pq) ==
  CHOOSE p \in {pq[k] : k \in 1 .. Len(pq)} :
    \A k \in 1 .. Len(pq) : ~PairLess(p, pq[k])

\* The push loop of Book_V2: (countUtilization_bf(r), -r) for each free room
Pq_V2(h, freeRooms) ==
  [k \in 1 .. Len(freeRooms) |->
     <<countUtilization_bf(h, freeRooms[k]), -freeRooms[k]>>]

\* The push loop of Book_V3: (utilization[r], -r) for each free room
Pq_V3(h, freeRooms) ==
  [k \in 1 .. Len(freeRooms) |-> <<h.utilization[freeRooms[k]], -freeRooms[k]>>]

\* Mutant of SetDays: the commit loop written d < end
SetDaysShort(occ, chosenRoom, start, end) ==
  [occ EXCEPT ![chosenRoom] = @ \cup (start .. end - 1)]

\* Mutant of SetDays: the row of the chosen room is reset before it is marked
SetDaysOverwrite(occ, chosenRoom, start, end) ==
  [occ EXCEPT ![chosenRoom] = start .. end]

\* Mutant of SetDays: the commit loop run for every room
SetDaysAllRooms(occ, chosenRoom, start, end) ==
  [r \in DOMAIN occ |-> occ[r] \cup (start .. end)]

\* The commit loop: every day of [start,end] set on the chosen room
SetDays(occ, chosenRoom, start, end) ==
  [occ EXCEPT ![chosenRoom] = @ \cup (start .. end)]

\* Mutant of AddUtilization: utilization[chosenRoom] += (end - start)
AddUtilizationOffByOne(util, chosenRoom, start, end) ==
  [util EXCEPT ![chosenRoom] = @ + (end - start)]

\* Mutant of AddUtilization: the increment applied to every room
AddUtilizationEveryRoom(util, chosenRoom, start, end) ==
  [r \in DOMAIN util |-> util[r] + (end - start + 1)]

\* utilization[chosenRoom] += (end - start + 1)
AddUtilization(util, chosenRoom, start, end) ==
  [util EXCEPT ![chosenRoom] = @ + (end - start + 1)]

Declined(h) == [ret |-> "Decline", hotel |-> h, chosenRoom |-> -1]

\* Hotel::Book
Book(h, start, end) ==
  IF Invalid(start, end) THEN Declined(h)
  ELSE LET freeRooms == freeRooms_bf(h, start, end) IN
       IF freeRooms = <<>> THEN Declined(h)
       ELSE LET chosenRoom == MaxScan(h, freeRooms, 1, -1, -1) IN
            [ ret        |-> "Accept",
              hotel      |-> [h EXCEPT !.occupied_bf =
                                SetDays(@, chosenRoom, start, end)],
              chosenRoom |-> chosenRoom ]

\* Mutant of Book_V2: chosenRoom starts at 0 and the commit loop runs before
\* the test of freeRooms.empty()
Book_V2CommitFirst(h, start, end) ==
  IF Invalid(start, end) THEN Declined(h)
  ELSE LET freeRooms == freeRooms_bf(h, start, end) IN
       IF freeRooms = <<>>
       THEN [ ret        |-> "Decline",
              hotel      |-> [h EXCEPT !.occupied_bf = SetDays(@, 0, start, end)],
              chosenRoom |-> -1 ]
       ELSE LET chosenRoom == -(PqTop(Pq_V2(h, freeRooms))[2]) IN
            [ ret        |-> "Accept",
              hotel      |-> [h EXCEPT !.occupied_bf =
                                SetDays(@, chosenRoom, start, end)],
              chosenRoom |-> chosenRoom ]

\* Hotel::Book_V2
Book_V2(h, start, end) ==
  IF Invalid(start, end) THEN Declined(h)
  ELSE LET freeRooms == freeRooms_bf(h, start, end) IN
       IF freeRooms = <<>> THEN Declined(h)
       ELSE LET chosenRoom == -(PqTop(Pq_V2(h, freeRooms))[2]) IN
            [ ret        |-> "Accept",
              hotel      |-> [h EXCEPT !.occupied_bf =
                                SetDays(@, chosenRoom, start, end)],
              chosenRoom |-> chosenRoom ]

\* Hotel::Book_V3
Book_V3(h, start, end) ==
  IF Invalid(start, end) THEN Declined(h)
  ELSE LET freeRooms == freeRooms_bs(h, start, end) IN
       IF freeRooms = <<>> THEN Declined(h)
       ELSE LET chosenRoom == -(PqTop(Pq_V3(h, freeRooms))[2]) IN
            [ ret        |-> "Accept",
              hotel      |-> [h EXCEPT
                                !.occupied_bs = SetDays(@, chosenRoom, start, end),
                                !.utilization =
                                  AddUtilization(@, chosenRoom, start, end)],
              chosenRoom |-> chosenRoom ]

----------------------------------------------------------------------------
\* Bookkeeping of a call on hotel i: the call and its result go to last[i],
\* an accepted booking is added to log[i].
NoCall == [variant |-> "none", start |-> 0, end |-> 0,
           ret |-> "none", chosenRoom |-> -1]

\* No RunTest invocation in progress; no call executed step by step
NoRun == [testName |-> "none", bookingNum |-> 0, passed |-> TRUE, results |-> <<>>]
NoThreads == <<>>

Returned(i, variant, start, end, res) ==
  /\ hotels' = [hotels EXCEPT ![i] = res.hotel]
  /\ last' = [last EXCEPT ![i] =
                [variant |-> variant, start |-> start, end |-> end,
                 ret |-> res.ret, chosenRoom |-> res.chosenRoom]]
  /\ log' = [log EXCEPT ![i] =
               IF res.ret = "Accept"
               THEN @ (+) SetToBag({[variant |-> variant,
                                     room |-> res.chosenRoom,
                                     start |-> start, end |-> end]})
               ELSE @]
  /\ UNCHANGED driver

Record(i, variant, start, end, res) ==
  /\ Returned(i, variant, start, end, res)
  /\ UNCHANGED <<run, threads>>

MayCall(i) == BagCardinality(log[i]) < MaxAccepted

\* The method the caller of hotel i uses, applied to (start, end)
Invoke(variant, h, start, end) ==
  CASE variant = "Book"    -> Book(h, start, end)
    [] variant = "Book_V2" -> Book_V2(h, start, end)
    [] variant = "Book_V3" -> Book_V3(h, start, end)

\* A caller invokes hotel.Book(start, end)
CallBook(i, start, end) ==
  /\ driver[i] = "Book"
  /\ Record(i, "Book", start, end, Book(hotels[i], start, end))

\* A caller invokes hotel.Book_V2(start, end)
CallBook_V2(i, start, end) ==
  /\ driver[i] = "Book_V2"
  /\ Record(i, "Book_V2", start, end, Book_V2(hotels[i], start, end))

\* A caller invokes hotel.Book_V3(start, end)
CallBook_V3(i, start, end) ==
  /\ driver[i] = "Book_V3"
  /\ Record(i, "Book_V3", start, end, Book_V3(hotels[i], start, end))

Variants == {"Book", "Book_V2", "Book_V3"}

\* One Hotel object, constructed with any room count, on which a caller
\* books through one of the three methods (as RunTest does through Book_V3),
\* any number of times with any arguments.
Init ==
  \E s \in 1 .. MaxRooms, v \in Variants :
    /\ hotels = [i \in {"h"} |-> Hotel(s)]
    /\ driver = [i \in {"h"} |-> v]
    /\ last = [i \in {"h"} |-> NoCall]
    /\ log = [i \in {"h"} |-> EmptyBag]
    /\ run = NoRun
    /\ threads = NoThreads

Next ==
  \E i \in DOMAIN hotels :
    /\ MayCall(i)
    /\ \E start \in StartDays, end \in EndDays :
         \/ CallBook(i, start, end)
         \/ CallBook_V2(i, start, end)
         \/ CallBook_V3(i, start, end)

Spec == Init /\ [][Next]_vars

----------------------------------------------------------------------------
\* Replay of one request sequence on three fresh Hotels of the same room
\* count, the first booked through Book only, the second through Book_V2
\* only, the third through Book_V3 only.  One step is one position of the
\* sequence: the same (start, end) is handed to each of the three.
InitReplay ==
  \E s \in 1 .. MaxRooms :
    /\ hotels = [i \in Variants |-> Hotel(s)]
    /\ driver = [i \in Variants |-> i]
    /\ last = [i \in Variants |-> NoCall]
    /\ log = [i \in Variants |-> EmptyBag]
    /\ run = NoRun
    /\ threads = NoThreads

Replay(start, end) ==
  LET res == [i \in DOMAIN hotels |-> Invoke(driver[i], hotels[i], start, end)] IN
  /\ \A i \in DOMAIN hotels : MayCall(i)
  /\ hotels' = [i \in DOMAIN hotels |-> res[i].hotel]
  /\ last' = [i \in DOMAIN hotels |->
                [variant |-> driver[i], start |-> start, end |-> end,
                 ret |-> res[i].ret, chosenRoom |-> res[i].chosenRoom]]
  /\ log' = [i \in DOMAIN hotels |->
               IF res[i].ret = "Accept"
               THEN log[i] (+) SetToBag({[variant |-> driver[i],
                                          room |-> res[i].chosenRoom,
                                          start |-> start, end |-> end]})
               ELSE log[i]]
  /\ UNCHANGED <<driver, run, threads>>

NextReplay == \E start \in StartDays, end \in EndDays : Replay(start, end)

SpecReplay == InitReplay /\ [][NextReplay]_vars

----------------------------------------------------------------------------
\* One Hotel object on which the three public methods are called in any
\* order with any arguments.
InitMixed ==
  \E s \in 1 .. MaxRooms :
    /\ hotels = [i \in {"h"} |-> Hotel(s)]
    /\ driver = [i \in {"h"} |-> "any"]
    /\ last = [i \in {"h"} |-> NoCall]
    /\ log = [i \in {"h"} |-> EmptyBag]
    /\ run = NoRun
    /\ threads = NoThreads

\* Days the requests on this hotel name, as start and as end (so that
\* start > end occurs too)
MixedDays == 0 .. MaxDay

\* A caller invokes method v of the hotel
MixedCall(i, v, start, end) ==
  /\ driver[i] = "any"
  /\ Record(i, v, start, end, Invoke(v, hotels[i], start, end))

NextMixed ==
  \E i \in DOMAIN hotels :
    /\ MayCall(i)
    /\ \E v \in Variants, start \in MixedDays, end \in MixedDays :
         MixedCall(i, v, start, end)

SpecMixed == InitMixed /\ [][NextMixed]_vars

----------------------------------------------------------------------------
\* Two callers on one Hotel, each making one Book_V3 call, without mutual
\* exclusion: the free-room search (with the validation before it), the
\* selection and the commit of a call are each one step, and the steps of
\* the two calls interleave in any order.  A call keeps freeRooms and
\* chosenRoom as locals between its steps; atSearch and atSelect record how
\* many commits the Hotel had seen when the call searched and selected.
Threads == {1, 2}

Idle == [pc |-> "search", start |-> 0, end |-> 0, freeRooms |-> <<>>,
         chosenRoom |-> -1, ret |-> "none", atSearch |-> -1, atSelect |-> -1]

InitConcurrent ==
  \E s \in 1 .. MaxRooms :
    /\ hotels = [i \in {"h"} |-> Hotel(s)]
    /\ driver = [i \in {"h"} |-> "Book_V3"]
    /\ last = [i \in {"h"} |-> NoCall]
    /\ log = [i \in {"h"} |-> EmptyBag]
    /\ run = NoRun
    /\ threads = [t \in Threads |-> Idle]

\* Book_V3 up to the test of freeRooms.empty()
Search(i, t, start, end) ==
  /\ threads[t].pc = "search"
  /\ LET freeRooms == freeRooms_bs(hotels[i], start, end)
         declined == Invalid(start, end) \/ freeRooms = <<>>
     IN  /\ threads' = [threads EXCEPT ![t] =
                          [@ EXCEPT !.pc = IF declined THEN "done" ELSE "select",
                                    !.start = start, !.end = end,
                                    !.freeRooms = IF Invalid(start, end)
                                                  THEN <<>> ELSE freeRooms,
                                    !.ret = IF declined THEN "Decline" ELSE "none",
                                    !.atSearch = BagCardinality(log[i])]]
         /\ last' = IF declined
                    THEN [last EXCEPT ![i] =
                            [variant |-> "Book_V3", start |-> start, end |-> end,
                             ret |-> "Decline", chosenRoom |-> -1]]
                    ELSE last
  /\ UNCHANGED <<hotels, driver, log, run>>

\* Book_V3: the push loop and pq.top()
Select(i, t) ==
  /\ threads[t].pc = "select"
  /\ threads' = [threads EXCEPT ![t] =
                   [@ EXCEPT !.pc = "commit",
                             !.chosenRoom =
                               -(PqTop(Pq_V3(hotels[i], threads[t].freeRooms))[2]),
                             !.atSelect = BagCardinality(log[i])]]
  /\ UNCHANGED <<hotels, driver, last, log, run>>

\* Book_V3: the commit loop, the utilization update and return "Accept"
Commit(i, t) ==
  /\ threads[t].pc = "commit"
  /\ LET c == threads[t]
         h == hotels[i]
         res == [ ret        |-> "Accept",
                  hotel      |-> [h EXCEPT
                                    !.occupied_bs =
                                      SetDays(@, c.chosenRoom, c.start, c.end),
                                    !.utilization =
                                      AddUtilization(@, c.chosenRoom, c.start, c.end)],
                  chosenRoom |-> c.chosenRoom ]
     IN  /\ Returned(i, "Book_V3", c.start, c.end, res)
         /\ threads' = [threads EXCEPT ![t] =
                          [@ EXCEPT !.pc = "done", !.ret = "Accept"]]
  /\ UNCHANGED run

NextConcurrent ==
  \E i \in DOMAIN hotels, t \in Threads :
    \/ \E start \in StartDays, end \in EndDays : Search(i, t, start, end)
    \/ Select(i, t)
    \/ Commit(i, t)

SpecConcurrent == InitConcurrent /\ [][NextConcurrent]_vars

----------------------------------------------------------------------------
\* The test scenarios of main(): room count and (start, end, expected) list
Tests ==
  [ Test1a |-> [size |-> 1, bookings |-> << <<-4, 2, "Decline">> >>],
    Test1b |-> [size |-> 1, bookings |-> << <<200, 400, "Decline">> >>],
    Test2  |-> [size |-> 3,
                bookings |-> << <<0, 5, "Accept">>, <<7, 13, "Accept">>,
                                <<3, 9, "Accept">>, <<5, 7, "Accept">>,
                                <<6, 6, "Accept">>, <<0, 4, "Accept">> >>],
    Test3  |-> [size |-> 3,
                bookings |-> << <<1, 3, "Accept">>, <<2, 5, "Accept">>,
                                <<1, 9, "Accept">>, <<0, 15, "Decline">> >>],
    Test4  |-> [size |-> 3,
                bookings |-> << <<1, 3, "Accept">>, <<0, 15, "Accept">>,
                                <<1, 9, "Accept">>, <<2, 5, "Decline">>,
                                <<4, 9, "Accept">> >>],
    Test5  |-> [size |-> 2,
                bookings |-> << <<1, 3, "Accept">>, <<0, 4, "Accept">>,
                                <<2, 3, "Decline">>, <<5, 5, "Accept">>,
                                <<4, 10, "Accept">>, <<10, 10, "Accept">>,
                                <<6, 7, "Accept">>, <<8, 10, "Decline">>,
                                <<8, 9, "Accept">> >>] ]

\* The room counts main() passes to RunTest
TestSizes == {Tests[t].size : t \in DOMAIN Tests}

\* RunTest(testName, size, bookings): a fresh Hotel of `size` rooms.  main()
\* passes each list with its own room count and RunTest books through
\* Book_V3; here every list is run with every room count of main() and
\* through each of the three methods.
InitTests ==
  \E t \in DOMAIN Tests, s \in TestSizes, v \in Variants :
    /\ hotels = [i \in {"h"} |-> Hotel(s)]
    /\ driver = [i \in {"h"} |-> v]
    /\ last = [i \in {"h"} |-> NoCall]
    /\ log = [i \in {"h"} |-> EmptyBag]
    /\ run = [testName |-> t, bookingNum |-> 1, passed |-> TRUE, results |-> <<>>]
    /\ threads = NoThreads

\* One iteration of the loop of RunTest: the next booking of the list is
\* made, its result is printed and compared with the expected one.
RunBooking(i) ==
  /\ run.testName \in DOMAIN Tests
  /\ run.bookingNum <= Len(Tests[run.testName].bookings)
  /\ LET booking == Tests[run.testName].bookings[run.bookingNum]
         start == booking[1]
         end == booking[2]
         expected == booking[3]
         res == Invoke(driver[i], hotels[i], start, end)
     IN  /\ Returned(i, driver[i], start, end, res)
         /\ run' = [run EXCEPT
                      !.bookingNum = @ + 1,
                      !.passed = @ /\ (res.ret = expected),
                      !.results = Append(@, [ret |-> res.ret,
                                             chosenRoom |-> res.chosenRoom])]
  /\ UNCHANGED threads

NextTests == \E i \in DOMAIN hotels : RunBooking(i)

SpecTests == InitTests /\ [][NextTests]_vars

----------------------------------------------------------------------------
\* Vocabulary of the properties.  These definitions restate what the claims
\* say; they do not use the operators of the booking algorithm.

\* The occupancy store a method works on
Occ(h, variant) == IF variant = "Book_V3" THEN h.occupied_bs ELSE h.occupied_bf
Rooms(h) == 0 .. h.size - 1
Range(c) == c.start .. c.end
OutOfBounds(c) == c.start < 0 \/ c.end >= 366 \/ c.start > c.end
\* Number of occupied days of room r over the whole horizon
DaysUsed(occ, r) == Cardinality(occ[r] \cap (0 .. 365))
\* Room r has no occupied day in the range of call c
FreeFor(occ, r, c) == occ[r] \cap Range(c) = {}
\* This step is a call on hotel i; the call and its result are last'[i]
Called(i) == <<hotels[i], last[i], log[i]>>' # <<hotels[i], last[i], log[i]>>
SameStore(b1, b2) == (b1.variant = "Book_V3") <=> (b2.variant = "Book_V3")

\* C1 (no double booking): an accepted call commits to a room that had no
\* day of [start,end] occupied just before the call, and at all times no two
\* accepted bookings of the same room overlap.
LogNoOverlap ==
  \A i \in DOMAIN hotels :
    \A b1, b2 \in BagToSet(log[i]) :
      (SameStore(b1, b2) /\ b1.room = b2.room) =>
        IF b1 = b2 THEN CopiesIn(b1, log[i]) = 1
        ELSE Range(b1) \cap Range(b2) = {}

AcceptOnFree ==
  \A i \in DOMAIN hotels :
    (Called(i) /\ last'[i].ret = "Accept") =>
      /\ last'[i].chosenRoom \in Rooms(hotels[i])
      /\ FreeFor(Occ(hotels[i], last'[i].variant), last'[i].chosenRoom, last'[i])

NoDoubleBooking == [](LogNoOverlap) /\ [][AcceptOnFree]_vars

\* C1 witness: a room holds two accepted bookings, the later one just made
TwoBookingsOneRoom ==
  \E i \in DOMAIN hotels :
    /\ last[i].ret = "Accept"
    /\ \E b1, b2 \in BagToSet(log[i]) :
         b1 # b2 /\ b1.room = b2.room /\ b1.room = last[i].chosenRoom

\* C2 (bound validity): a call with start < 0, end >= 366 or start > end
\* returns Decline and leaves occupied_bf, occupied_bs and utilization as
\* they were.
BoundValidity ==
  [][\A i \in DOMAIN hotels :
       (Called(i) /\ OutOfBounds(last'[i])) =>
         /\ last'[i].ret = "Decline"
         /\ hotels'[i] = hotels[i]
         /\ log'[i] = log[i]]_vars

\* C2 witness: an out-of-bounds call was declined on a hotel with bookings
InvalidDeclinedOnBookedHotel ==
  \E i \in DOMAIN hotels :
    /\ OutOfBounds(last[i]) /\ last[i].ret = "Decline"
    /\ log[i] # EmptyBag

\* C3 (accept commits exactly the range on exactly one room): after an
\* accepted call exactly one room has the whole range set, its other days as
\* before and all other rooms as before; and no call whatever marks only a
\* part of its range on any room.
CommitsOn(i, r) ==
  LET c == last'[i]
      before == Occ(hotels[i], c.variant)
      after == Occ(hotels'[i], c.variant)
  IN  /\ Range(c) \subseteq after[r]
      /\ after[r] \ Range(c) = before[r] \ Range(c)
      /\ \A q \in Rooms(hotels[i]) \ {r} : after[q] = before[q]

AcceptCommitsRange ==
  [][\A i \in DOMAIN hotels :
       Called(i) =>
         LET c == last'[i]
             before == Occ(hotels[i], c.variant)
             after == Occ(hotels'[i], c.variant)
         IN  /\ c.ret = "Accept" =>
                  /\ Cardinality({r \in Rooms(hotels[i]) : CommitsOn(i, r)}) = 1
                  /\ CommitsOn(i, c.chosenRoom)
             /\ \A r \in Rooms(hotels[i]) :
                  after[r] \ before[r] \in {{}, Range(c)}]_vars

\* C3 witness: a booking of several days was accepted on a room that already
\* held other days, while another room holds days too
MultiDayCommitted ==
  \E i \in DOMAIN hotels :
    LET c == last[i]
        occ == Occ(hotels[i], c.variant)
    IN  /\ c.ret = "Accept" /\ c.start < c.end
        /\ occ[c.chosenRoom] \ Range(c) # {}
        /\ \E q \in Rooms(hotels[i]) \ {c.chosenRoom} : occ[q] # {}

\* C4 (accept exactly when capacity exists): a call within bounds returns
\* Accept iff some room has no occupied day in [start,end] before the call,
\* and Decline iff every room has one.
AcceptIffCapacity ==
  [][\A i \in DOMAIN hotels :
       (Called(i) /\ ~OutOfBounds(last'[i])) =>
         LET c == last'[i]
             before == Occ(hotels[i], c.variant)
         IN  /\ c.ret = "Accept" <=>
                  \E r \in Rooms(hotels[i]) : FreeFor(before, r, c)
             /\ c.ret = "Decline" <=>
                  \A r \in Rooms(hotels[i]) : ~FreeFor(before, r, c)]_vars

\* C4 witness: accepted on the last room, the only one free for the range
AcceptedOnOnlyFreeRoom ==
  \E i \in DOMAIN hotels :
    LET c == last[i]
        occ == Occ(hotels[i], c.variant)
    IN  /\ c.ret = "Accept" /\ hotels[i].size > 1
        /\ c.chosenRoom = hotels[i].size - 1
        /\ \A q \in Rooms(hotels[i]) \ {c.chosenRoom} : ~FreeFor(occ, q, c)

\* C5 (a capacity decline changes nothing): a call within bounds that is
\* declined leaves every member of the Hotel as it was.
CapacityDeclineNoChange ==
  [][\A i \in DOMAIN hotels :
       (Called(i) /\ ~OutOfBounds(last'[i]) /\ last'[i].ret = "Decline") =>
         /\ hotels'[i] = hotels[i]
         /\ log'[i] = log[i]]_vars

\* C5 witness: a call within bounds was declined, every room being occupied
\* on some day of its range
DeclinedForCapacity ==
  \E i \in DOMAIN hotels :
    LET c == last[i]
        occ == Occ(hotels[i], c.variant)
    IN  /\ c.ret = "Decline" /\ ~OutOfBounds(c)
        /\ hotels[i].size > 1
        /\ \A r \in Rooms(hotels[i]) : ~FreeFor(occ, r, c)

\* C6 (most-utilized selection): the room an accepted call chooses has at
\* least as many occupied days, over the whole horizon, as every room that
\* was free for the range.
MostUtilized ==
  [][\A i \in DOMAIN hotels :
       (Called(i) /\ last'[i].ret = "Accept") =>
         LET c == last'[i]
             before == Occ(hotels[i], c.variant)
         IN  \A q \in Rooms(hotels[i]) :
               FreeFor(before, q, c) =>
                 DaysUsed(before, q) <= DaysUsed(before, c.chosenRoom)]_vars

\* C6 witness: room 1 was chosen although room 0 was free for the range too,
\* room 1 having had more occupied days
ChosenOverLowerIndex ==
  \E i \in DOMAIN hotels :
    LET c == last[i]
        occ == Occ(hotels[i], c.variant)
    IN  /\ c.ret = "Accept" /\ c.chosenRoom = 1
        /\ FreeFor(occ, 0, c)
        /\ DaysUsed(occ, 0) > 0
        /\ DaysUsed(occ, 1) - (c.end - c.start + 1) > DaysUsed(occ, 0)

\* C7 (tie-break): when several rooms free for the range share the greatest
\* number of occupied days, the smallest index among them is chosen.
TieBreak ==
  [][\A i \in DOMAIN hotels :
       (Called(i) /\ last'[i].ret = "Accept") =>
         LET c == last'[i]
             before == Occ(hotels[i], c.variant)
             free == {r \in Rooms(hotels[i]) : FreeFor(before, r, c)}
             top == {r \in free :
                       \A q \in free : DaysUsed(before, q) <= DaysUsed(before, r)}
         IN  Cardinality(top) >= 2 =>
               (c.chosenRoom \in top /\ \A q \in top : c.chosenRoom <= q)]_vars

\* C7 witness: room 0 was chosen while room 1, free for the range too, had
\* as many (and more than zero) occupied days
TieResolved ==
  \E i \in DOMAIN hotels :
    LET c == last[i]
        occ == Occ(hotels[i], c.variant)
    IN  /\ c.ret = "Accept" /\ c.chosenRoom = 0 /\ hotels[i].size > 1
        /\ FreeFor(occ, 1, c)
        /\ DaysUsed(occ, 1) > 0
        /\ DaysUsed(occ, 0) - (c.end - c.start + 1) = DaysUsed(occ, 1)

\* C8 (utilization consistency): utilization[r] is the number of set bits
\* of occupied_bs[r], for every room, at all times.
UtilizationConsistent ==
  \A i \in DOMAIN hotels :
    \A r \in Rooms(hotels[i]) :
      hotels[i].utilization[r] = Cardinality(hotels[i].occupied_bs[r])

\* C8 witness: after accepted Book_V3 calls, one of them of a single day, a
\* Book_V3 call was declined
DeclineAfterV3Bookings ==
  \E i \in DOMAIN hotels :
    /\ last[i].variant = "Book_V3" /\ last[i].ret = "Decline"
    /\ \E r \in Rooms(hotels[i]) : hotels[i].utilization[r] >= 2
    /\ \E b \in BagToSet(log[i]) : b.start = b.end

\* C9 (outcome equivalence across variants): at every position of a replayed
\* sequence the three Hotels return the same outcome.
SameOutcome ==
  \A i, j \in DOMAIN hotels :
    /\ last[i].ret = last[j].ret
    /\ last[i].start = last[j].start
    /\ last[i].end = last[j].end

\* C9 witness: the three Hotels, one per method, declined a request within
\* bounds after having accepted two
AllThreeDeclined ==
  /\ DOMAIN hotels = Variants
  /\ \A i \in DOMAIN hotels :
       /\ driver[i] = i
       /\ last[i].ret = "Decline" /\ ~OutOfBounds(last[i])
       /\ BagCardinality(log[i]) >= 2

\* C10 (monotonic occupancy): a day occupied on a room stays occupied, in
\* occupied_bf and in occupied_bs, and utilization never decreases.
MonotonicOccupancy ==
  [][\A i \in DOMAIN hotels :
       \A r \in Rooms(hotels[i]) :
         /\ hotels[i].occupied_bf[r] \subseteq hotels'[i].occupied_bf[r]
         /\ hotels[i].occupied_bs[r] \subseteq hotels'[i].occupied_bs[r]
         /\ hotels[i].utilization[r] <= hotels'[i].utilization[r]]_vars

\* C10 witness: a room still holds the days of an earlier booking after one
\* more booking on it and a declined call
EarlierDaysKept ==
  \E i \in DOMAIN hotels :
    /\ last[i].ret = "Decline"
    /\ \E b1, b2 \in BagToSet(log[i]) :
         /\ b1 # b2 /\ b1.room = b2.room
         /\ Range(b1) \cup Range(b2) \subseteq Occ(hotels[i], b1.variant)[b1.room]

\* Outcomes printed so far by the RunTest invocation
Outcomes == [k \in 1 .. Len(run.results) |-> run.results[k].ret]
IsPrefix(s, t) == Len(s) <= Len(t) /\ s = SubSeq(t, 1, Len(s))
Running(t, s) ==
  /\ run.testName = t
  /\ \A i \in DOMAIN hotels : hotels[i].size = s

\* C12 (Test 5 scenario): on a fresh 2-room Hotel the nine requests of Test 5
\* return Accept, Accept, Decline, Accept, Accept, Accept, Accept, Decline,
\* Accept; (5,5) goes to room 1 and (4,10) to room 0.
TestFiveOutcomes ==
  Running("Test5", 2) =>
    /\ IsPrefix(Outcomes, <<"Accept", "Accept", "Decline", "Accept", "Accept",
                            "Accept", "Accept", "Decline", "Accept">>)
    /\ Len(run.results) >= 4 => run.results[4].chosenRoom = 1
    /\ Len(run.results) >= 5 => run.results[5].chosenRoom = 0

\* C12 witness: RunTest has made the nine bookings of Test 5 through Book_V3
TestFiveDone ==
  /\ Running("Test5", 2)
  /\ \A i \in DOMAIN hotels : driver[i] = "Book_V3"
  /\ Len(run.results) = 9
  /\ last["h"].start = 8 /\ last["h"].end = 9 /\ last["h"].ret = "Accept"

\* C13 (Test 2 scenario): on a fresh 3-room Hotel the six requests of Test 2
\* are all accepted, (7,13) on the room that took (0,5).
TestTwoOutcomes ==
  Running("Test2", 3) =>
    /\ \A k \in 1 .. Len(run.results) : run.results[k].ret = "Accept"
    /\ Len(run.results) >= 2 =>
         run.results[2].chosenRoom = run.results[1].chosenRoom

\* C13 witness: RunTest has made the six bookings of Test 2 through Book_V3
TestTwoDone ==
  /\ Running("Test2", 3)
  /\ \A i \in DOMAIN hotels : driver[i] = "Book_V3"
  /\ Len(run.results) = 6
  /\ last["h"].start = 0 /\ last["h"].end = 4 /\ last["h"].ret = "Accept"

\* C14 (Test 4 scenario): on a fresh 3-room Hotel the five requests of Test 4
\* return Accept, Accept, Accept, Decline, Accept.
TestFourOutcomes ==
  Running("Test4", 3) =>
    IsPrefix(Outcomes, <<"Accept", "Accept", "Accept", "Decline", "Accept">>)

\* C14 witness: RunTest has made the five bookings of Test 4 through Book_V3,
\* the one after the declined (2,5) accepted
TestFourDone ==
  /\ Running("Test4", 3)
  /\ \A i \in DOMAIN hotels : driver[i] = "Book_V3"
  /\ Len(run.results) = 5
  /\ run.results[4].ret = "Decline"
  /\ last["h"].start = 4 /\ last["h"].end = 9 /\ last["h"].ret = "Accept"

\* C15 (horizon boundaries are valid): on a fresh Hotel reserve(0,365) is
\* accepted and occupies all 366 days of room 0; an accepted request with
\* start = end occupies exactly one day.
HorizonBoundaries ==
  [][\A i \in DOMAIN hotels :
       Called(i) =>
         LET c == last'[i]
             before == Occ(hotels[i], c.variant)
             after == Occ(hotels'[i], c.variant)
         IN  /\ ((\A r \in Rooms(hotels[i]) : before[r] = {})
                    /\ c.start = 0 /\ c.end = 365) =>
                  /\ c.ret = "Accept" /\ c.chosenRoom = 0
                  /\ after[0] = 0 .. 365
                  /\ Cardinality(after[0]) = 366
             /\ (c.ret = "Accept" /\ c.start = c.end) =>
                  \E r \in Rooms(hotels[i]) :
                    /\ after[r] \ before[r] = {c.start}
                    /\ \A q \in Rooms(hotels[i]) \ {r} : after[q] = before[q]]_vars

\* C15 witness: (0,365) was accepted on room 0 of a fresh Hotel, then the
\* single day (365,365) on room 1
WholeHorizonThenLastDay ==
  \E i \in DOMAIN hotels :
    LET c == last[i]
        occ == Occ(hotels[i], c.variant)
    IN  /\ hotels[i].size > 1
        /\ BagCardinality(log[i]) = 2
        /\ c.ret = "Accept" /\ c.start = 365 /\ c.end = 365 /\ c.chosenRoom = 1
        /\ occ[0] = 0 .. 365 /\ occ[1] = {365}

\* C16 (same room chosen by the three selection mechanisms): at every
\* position of a replayed sequence the three Hotels chose the same room, and
\* occupied_bf of the Book instance, occupied_bf of the Book_V2 instance and
\* occupied_bs of the Book_V3 instance are equal.
SameRoomChosen ==
  \A i, j \in DOMAIN hotels :
    /\ last[i].chosenRoom = last[j].chosenRoom
    /\ Occ(hotels[i], driver[i]) = Occ(hotels[j], driver[j])

\* C16 witness: the three Hotels, one per method, put a request on room 1
\* although room 0 was free for it too
AllThreeChoseRoomOne ==
  /\ DOMAIN hotels = Variants
  /\ \A i \in DOMAIN hotels :
       /\ driver[i] = i
       /\ last[i].ret = "Accept" /\ last[i].chosenRoom = 1
       /\ FreeFor(Occ(hotels[i], i), 0, last[i])
       /\ Occ(hotels[i], i)[0] # {}

\* C17 (utilization increment per call): an accepted Book_V3(start,end)
\* adds end - start + 1 to utilization of the chosen room and leaves the
\* other entries; a declined Book_V3 leaves every entry.
UtilizationIncrement ==
  [][\A i \in DOMAIN hotels :
       (Called(i) /\ last'[i].variant = "Book_V3") =>
         LET c == last'[i]
             util == hotels[i].utilization
         IN  hotels'[i].utilization =
               IF c.ret = "Accept"
               THEN [util EXCEPT ![c.chosenRoom] = @ + (c.end - c.start + 1)]
               ELSE util]_vars

\* C17 witness: Book_V3 accepted a booking of several days on room 1, which
\* held days already, while room 0 holds days too
SeveralDaysAddedOnRoomOne ==
  \E i \in DOMAIN hotels :
    LET c == last[i] IN
    /\ c.variant = "Book_V3" /\ c.ret = "Accept" /\ c.chosenRoom = 1
    /\ c.start < c.end
    /\ hotels[i].utilization[1] > c.end - c.start + 1
    /\ hotels[i].utilization[0] > 0

\* The bag of days occupied on the rooms in R: a day occurs in it once for
\* each room it is occupied on
RECURSIVE OccupiedDays(_, _)
OccupiedDays(occ, R) ==
  IF R = {} THEN EmptyBag
  ELSE LET r == CHOOSE x \in R : TRUE
       IN  SetToBag(occ[r]) (+) OccupiedDays(occ, R \ {r})

\* The bag of days requested by the accepted bookings of bag B that are in
\* S: a day occurs in it once for each accepted request whose range has it
RECURSIVE RequestedDays(_, _, _)
RequestedDays(B, S, n) ==
  IF S = {} THEN EmptyBag
  ELSE LET b == CHOOSE x \in S : TRUE
       IN  IF n < CopiesIn(b, B)
           THEN SetToBag(Range(b)) (+) RequestedDays(B, S, n + 1)
           ELSE SetToBag(Range(b)) (+) RequestedDays(B, S \ {b}, 1)

\* Total number of days of the accepted bookings of bag B that are in S
RECURSIVE TotalDays(_, _)
TotalDays(B, S) ==
  IF S = {} THEN 0
  ELSE LET b == CHOOSE x \in S : TRUE
       IN  CopiesIn(b, B) * (b.end - b.start + 1) + TotalDays(B, S \ {b})

RECURSIVE SumUtilization(_, _)
SumUtilization(util, R) ==
  IF R = {} THEN 0
  ELSE LET r == CHOOSE x \in R : TRUE
       IN  util[r] + SumUtilization(util, R \ {r})

\* C20 (booking conservation): booked through one method from fresh, on
\* every day the number of occupied rooms is the number of accepted requests
\* whose range contains the day, hence at most the room count; for Book_V3
\* the sum of utilization is the number of days of the accepted requests.
BookingConservation ==
  \A i \in DOMAIN hotels :
    LET occ == Occ(hotels[i], driver[i])
        S == BagToSet(log[i])
        occupied == OccupiedDays(occ, Rooms(hotels[i]))
    IN  /\ occupied = RequestedDays(log[i], S, 1)
        /\ \A d \in BagToSet(occupied) : CopiesIn(d, occupied) <= hotels[i].size
        /\ driver[i] = "Book_V3" =>
             SumUtilization(hotels[i].utilization, Rooms(hotels[i]))
               = TotalDays(log[i], S)

\* C20 witness: three bookings accepted through Book_V3, one day occupied on
\* two rooms
DayOccupiedOnTwoRooms ==
  \E i \in DOMAIN hotels :
    /\ driver[i] = "Book_V3"
    /\ BagCardinality(log[i]) = 3
    /\ \E d \in 0 .. 365 :
         Cardinality({r \in Rooms(hotels[i]) : d \in hotels[i].occupied_bs[r]}) = 2

\* C19 (the state of the variants is disjoint inside one Hotel): Book and
\* Book_V2 leave occupied_bs and utilization as they were, Book_V3 leaves
\* occupied_bf; the outcome of a call is decided by the store of its own
\* method alone, which Book and Book_V2 share.
VariantStateDisjoint ==
  [][\A i \in DOMAIN hotels :
       Called(i) =>
         LET c == last'[i]
             h == hotels[i]
         IN  /\ c.variant \in {"Book", "Book_V2"} =>
                  /\ hotels'[i].occupied_bs = h.occupied_bs
                  /\ hotels'[i].utilization = h.utilization
             /\ c.variant = "Book_V3" => hotels'[i].occupied_bf = h.occupied_bf
             /\ ~OutOfBounds(c) =>
                  (c.ret = "Accept" <=>
                     \E r \in Rooms(h) : FreeFor(Occ(h, c.variant), r, c))
             /\ c.ret = "Accept" =>
                  FreeFor(Occ(h, c.variant), c.chosenRoom, c)]_vars

\* C19 witness: Book and Book_V2 put overlapping bookings on different rooms
\* of one Hotel, and Book_V3 was then accepted on a room and range that
\* occupied_bf holds as booked
ThreeMethodsOneHotel ==
  \E i \in DOMAIN hotels :
    /\ driver[i] = "any"
    /\ last[i].variant = "Book_V3" /\ last[i].ret = "Accept"
    /\ \E b1, b2 \in BagToSet(log[i]) :
         /\ b1.variant = "Book" /\ b2.variant = "Book_V2"
         /\ b1.room # b2.room
         /\ Range(b1) \cap Range(b2) # {}
    /\ hotels[i].occupied_bf[last[i].chosenRoom] \cap Range(last[i]) # {}

\* C18 (unserialized calls can double-book): with the steps of two Book_V3
\* calls interleaved, two accepted bookings of one room overlap only if
\* both calls were accepted on that room after each had searched before the
\* other committed; the witness shows that such a state is reached.
DoubleBookingOnlyInterleaved ==
  ~LogNoOverlap =>
    /\ \A t \in Threads :
         /\ threads[t].pc = "done" /\ threads[t].ret = "Accept"
         /\ threads[t].atSearch = 0
    /\ \A t, u \in Threads :
         /\ threads[t].chosenRoom = threads[u].chosenRoom
         /\ (threads[t].start .. threads[t].end)
              \cap (threads[u].start .. threads[u].end) # {}

\* C18 witness: both calls searched and selected before either committed,
\* both returned Accept on the same room for overlapping ranges; the room's
\* utilization exceeds its number of occupied days
DoubleBooked ==
  /\ DOMAIN threads = Threads
  /\ \A t \in Threads :
       /\ threads[t].pc = "done" /\ threads[t].ret = "Accept"
       /\ threads[t].atSearch = 0 /\ threads[t].atSelect = 0
       /\ threads[t].chosenRoom = threads[1].chosenRoom
  /\ (threads[1].start .. threads[1].end)
       \cap (threads[2].start .. threads[2].end) # {}
  /\ ~LogNoOverlap
  /\ \E i \in DOMAIN hotels :
       hotels[i].utilization[threads[1].chosenRoom]
         > Cardinality(hotels[i].occupied_bs[threads[1].chosenRoom])

----------------------------------------------------------------------------
\* A caller that, as RunTest does, constructs a fresh Hotel, books a list of
\* requests on it through one method and keeps each result.  The list is any
\* list of at most MaxBookings requests instead of one of the six of main();
\* no outcome is expected of a request, so `passed` is left as it is.
MaxBookings == MaxAccepted + 1

InitAnyTest ==
  \E s \in 1 .. MaxRooms, v \in Variants :
    /\ hotels = [i \in {"h"} |-> Hotel(s)]
    /\ driver = [i \in {"h"} |-> v]
    /\ last = [i \in {"h"} |-> NoCall]
    /\ log = [i \in {"h"} |-> EmptyBag]
    /\ run = [testName |-> "any", bookingNum |-> 1, passed |-> TRUE,
              results |-> <<>>]
    /\ threads = NoThreads

\* One iteration of the loop over the list: the request (start, end) is made
\* and its result is kept with it
RunAnyBooking(i, start, end) ==
  /\ run.testName = "any"
  /\ run.bookingNum <= MaxBookings
  /\ LET res == Invoke(driver[i], hotels[i], start, end)
     IN  /\ Returned(i, driver[i], start, end, res)
         /\ run' = [run EXCEPT
                      !.bookingNum = @ + 1,
                      !.results = Append(@, [start |-> start, end |-> end,
                                             ret |-> res.ret,
                                             chosenRoom |-> res.chosenRoom])]
  /\ UNCHANGED threads

NextAnyTest ==
  \E i \in DOMAIN hotels :
    \E start \in MixedDays, end \in MixedDays : RunAnyBooking(i, start, end)

SpecAnyTest == InitAnyTest /\ [][NextAnyTest]_vars

\* C21 (a decline is permanent): once a request within bounds has been
\* declined, every later request on that Hotel, through the same method,
\* whose range contains the declined range is declined too (the same request
\* included); a later Accept is only on a range that does not contain it.
Contains(c, d) == c.start <= d.start /\ d.end <= c.end

DeclinePermanent ==
  \A j, k \in 1 .. Len(run.results) :
    LET d == run.results[j]
        c == run.results[k]
    IN  (j < k /\ d.ret = "Decline" /\ ~OutOfBounds(d) /\ Contains(c, d))
          => c.ret = "Decline"

\* C21 witness: a request was declined, a later request was accepted, and a
\* request after that on a larger range containing the declined one was
\* declined
DeclinedAgainAfterAccept ==
  \E j, a, k \in 1 .. Len(run.results) :
    LET d == run.results[j]
        c == run.results[k]
    IN  /\ j < a /\ a < k
        /\ d.ret = "Decline" /\ ~OutOfBounds(d)
        /\ run.results[a].ret = "Accept"
        /\ Contains(c, d) /\ <<c.start, c.end>> # <<d.start, d.end>>
        /\ c.ret = "Decline"

----------------------------------------------------------------------------
\* The indices a call uses.  An index range [room, from, to] stands for the
\* elements occupied[room][d], d = from .. to, in loop order (none when
\* from > to).

\* The free-room search: rooms 0 .. size-1, on each the days from start up to
\* the first set day of [start,end], where the loop breaks, or up to end
SearchReads(occ, size, start, end) ==
  {[room |-> r, from |-> start,
    to |-> LET hit == occ[r] \cap (start .. end)
           IN  IF hit = {} THEN end
               ELSE CHOOSE d \in hit : (start .. d - 1) \cap occ[r] = {}]
     : r \in 0 .. size - 1}

\* countUtilization_bf(r) for each r of freeRooms: days 0 .. MaxDays-1
CountReads(freeRooms) ==
  {[room |-> freeRooms[k], from |-> 0, to |-> MaxDays - 1]
     : k \in 1 .. Len(freeRooms)}

\* The commit loop: days start .. end of chosenRoom
CommitWrites(chosenRoom, start, end) ==
  {[room |-> chosenRoom, from |-> start, to |-> end]}

\* What a call does besides returning: `indices` are the index ranges of its
\* reads and writes of occupancy, `tops` the heaps on which top() is called,
\* `commits` the chosenRoom of the commit loop with the freeRooms it was
\* chosen from.
NoAccess == [indices |-> {}, tops |-> {}, commits |-> {}]

\* Hotel::Book
Accesses_Book(h, start, end) ==
  IF Invalid(start, end) THEN NoAccess
  ELSE LET freeRooms == freeRooms_bf(h, start, end)
           search == SearchReads(h.occupied_bf, h.size, start, end)
       IN  IF freeRooms = <<>> THEN [NoAccess EXCEPT !.indices = search]
           ELSE LET chosenRoom == MaxScan(h, freeRooms, 1, -1, -1) IN
                [ indices |-> search \cup CountReads(freeRooms)
                                \cup CommitWrites(chosenRoom, start, end),
                  tops    |-> {},
                  commits |-> {[chosenRoom |-> chosenRoom,
                                freeRooms |-> freeRooms]} ]

\* Hotel::Book_V2
Accesses_V2(h, start, end) ==
  IF Invalid(start, end) THEN NoAccess
  ELSE LET freeRooms == freeRooms_bf(h, start, end)
           search == SearchReads(h.occupied_bf, h.size, start, end)
       IN  IF freeRooms = <<>> THEN [NoAccess EXCEPT !.indices = search]
           ELSE LET pq == Pq_V2(h, freeRooms)
                    chosenRoom == -(PqTop(pq)[2])
                IN  [ indices |-> search \cup CountReads(freeRooms)
                                    \cup CommitWrites(chosenRoom, start, end),
                      tops    |-> {pq},
                      commits |-> {[chosenRoom |-> chosenRoom,
                                    freeRooms |-> freeRooms]} ]

\* Hotel::Book_V3
Accesses_V3(h, start, end) ==
  IF Invalid(start, end) THEN NoAccess
  ELSE LET freeRooms == freeRooms_bs(h, start, end)
           search == SearchReads(h.occupied_bs, h.size, start, end)
       IN  IF freeRooms = <<>> THEN [NoAccess EXCEPT !.indices = search]
           ELSE LET pq == Pq_V3(h, freeRooms)
                    chosenRoom == -(PqTop(pq)[2])
                IN  [ indices |-> search \cup CommitWrites(chosenRoom, start, end),
                      tops    |-> {pq},
                      commits |-> {[chosenRoom |-> chosenRoom,
                                    freeRooms |-> freeRooms]} ]

Accesses(variant, h, start, end) ==
  CASE variant = "Book"    -> Accesses_Book(h, start, end)
    [] variant = "Book_V2" -> Accesses_V2(h, start, end)
    [] variant = "Book_V3" -> Accesses_V3(h, start, end)

\* The accesses t of call c on a hotel of `size` rooms are in range
SafeAccesses(t, size, c) ==
  /\ \A a \in t.indices :
       a.from <= a.to =>
         /\ 0 <= a.room /\ a.room < size
         /\ 0 <= a.from /\ a.to <= 365
  /\ \A pq \in t.tops : Len(pq) > 0
  /\ \A m \in t.commits :
       /\ m.chosenRoom # -1
       /\ \E k \in 1 .. Len(m.freeRooms) : m.freeRooms[k] = m.chosenRoom
       /\ m.chosenRoom = c.chosenRoom
  /\ c.ret = "Accept" <=> t.commits # {}

\* C22 (index safety): in every call of Book, Book_V2 and Book_V3 every read
\* or write of occupancy is at a room index r, 0 <= r < size, and a day index
\* d, 0 <= d <= 365; top() is called on a non-empty heap only; the room of
\* the commit loop is an element of freeRooms and is not -1, and it is the
\* room the accepted call took.  (c is the call with its result, h the hotel
\* before it, t what the call accessed.)
IndexSafety ==
  [][\A i \in DOMAIN hotels :
       Called(i) =>
         \A c \in {last'[i]}, h \in {hotels[i]} :
           \A t \in {Accesses(c.variant, h, c.start, c.end)} :
             SafeAccesses(t, h.size, c)]_vars

\* C22 witness: the whole horizon, days 0 to 365, was committed on the last
\* room of a hotel of several rooms
WholeHorizonOnLastRoom ==
  \E i \in DOMAIN hotels :
    /\ last[i].ret = "Accept" /\ last[i].start = 0 /\ last[i].end = 365
    /\ hotels[i].size > 1 /\ last[i].chosenRoom = hotels[i].size - 1
    /\ (0 .. 365) \subseteq Occ(hotels[i], last[i].variant)[last[i].chosenRoom]
====
